---- MODULE Spec2Model ----
(***************************************************************************)
(* The datamodel differ of the migration engine                            *)
(* (migration-engine/core/src/migration/datamodel_differ.rs): diff takes   *)
(* two schema ASTs, previous and next, and returns the ordered list of     *)
(* migration steps from previous to next.  The run of diff is modelled by  *)
(* its two phases (push_enums, push_models), followed by the datamodel     *)
(* calculator folding the steps onto the previous datamodel.               *)
(***************************************************************************)
EXTENDS Integers, Sequences, FiniteSets, TLC

(***************************************************************************)
(* Bounds of the schema universe.                                          *)
(***************************************************************************)
MaxValue == 2
MaxSpan == 1
MaxArgs == 2
MaxDirectives == 2
MaxFields == 2
MaxEnumValues == 2
MaxTops == 2

EnumNames == {"Color", "Role"}
EnumValueNames == {"RED", "BLUE", "GREEN"}
ModelNames == {"User", "Post"}
FieldNames == {"id", "name"}
FieldArities == {"Required", "Optional"}
FieldTypes == {"Int", "String"}
DirectiveNames == {"default", "map"}
ArgumentNames == {"", "name"}

(***************************************************************************)
(* Option<T>: None is the empty sequence, Some(x) the one-element one.     *)
(***************************************************************************)
None == <<>>
Some(x) == <<x>>
is_some(o) == o # None

(***************************************************************************)
(* Sequence helpers: Vec iteration, filter, map and find.                  *)
(***************************************************************************)
RECURSIVE Flatten(_)
Flatten(ss) == IF ss = <<>> THEN <<>> ELSE Head(ss) \o Flatten(Tail(ss))

Range(s) == {s[i] : i \in 1..Len(s)}

SeqsUpTo(S, n) == UNION {[1..k -> S] : k \in 0..n}

DistinctNames(s) == \A i, j \in 1..Len(s) : i # j => s[i].name # s[j].name

HasName(s, n) == \E i \in 1..Len(s) : s[i].name = n

FindByName(s, n) ==
    LET i == CHOOSE k \in 1..Len(s) :
                 /\ s[k].name = n
                 /\ \A l \in 1..(k - 1) : s[l].name # n
    IN  s[i]

(***************************************************************************)
(* The schema AST (datamodel::ast): expressions carry a source span next   *)
(* to their value; arguments, directives, fields, models and enums are     *)
(* named nodes with ordered children.                                      *)
(***************************************************************************)
Expressions == [value : 1..MaxValue, span : 0..MaxSpan]

Arguments == [name : ArgumentNames, value : Expressions]

ArgumentLists == {s \in SeqsUpTo(Arguments, MaxArgs) : DistinctNames(s)}

PlainArgumentLists ==
    {<<>>} \cup {<<[name |-> "", value |-> [value |-> v, span |-> 0]]>> : v \in 1..MaxValue}

DirectiveLists ==
    {s \in SeqsUpTo([name : DirectiveNames, arguments : PlainArgumentLists], MaxDirectives) :
        DistinctNames(s)}

SingleDirectiveLists ==
    {<<[name |-> d, arguments |-> al]>> : d \in DirectiveNames, al \in ArgumentLists}

DefaultDirectiveLists ==
    {<<>>} \cup {<<[name |-> "default", arguments |-> al]>> : al \in PlainArgumentLists}

FieldLists ==
    {s \in SeqsUpTo([name : FieldNames, arity : FieldArities, field_type : FieldTypes,
                     directives : {<<>>}], MaxFields) : DistinctNames(s)}

EnumValueLists ==
    {s \in SeqsUpTo([name : EnumValueNames], MaxEnumValues) : DistinctNames(s)}

IdField(directives) ==
    [name |-> "id", arity |-> "Required", field_type |-> "Int", directives |-> directives]

PlainModel(name) == [name |-> name, fields |-> <<IdField(<<>>)>>, directives |-> <<>>]

PlainEnum(name) == [name |-> name, values |-> <<[name |-> "RED"]>>, directives |-> <<>>]

TopEnumLists ==
    {s \in SeqsUpTo({PlainEnum(n) : n \in EnumNames}, MaxTops) : DistinctNames(s)}

TopModelLists ==
    {s \in SeqsUpTo({PlainModel(n) : n \in ModelNames}, MaxTops) : DistinctNames(s)}

SchemaAst(enums, models) == [enums |-> enums, models |-> models]

\* one field whose directives vary
FieldDirectiveSchemas ==
    {SchemaAst(<<>>, <<[name |-> "User", fields |-> <<IdField(ds)>>, directives |-> <<>>]>>) :
        ds \in DirectiveLists \cup SingleDirectiveLists}

\* one model whose directives vary
ModelDirectiveSchemas ==
    {SchemaAst(<<>>, <<[name |-> "User", fields |-> <<IdField(<<>>)>>, directives |-> ds]>>) :
        ds \in DirectiveLists}

\* one enum whose directives vary
EnumDirectiveSchemas ==
    {SchemaAst(<<[name |-> "Color", values |-> <<[name |-> "RED"]>>, directives |-> ds]>>, <<>>) :
        ds \in DirectiveLists}

\* one model whose fields vary
FieldSchemas ==
    {SchemaAst(<<>>, <<[name |-> "User", fields |-> fs, directives |-> <<>>]>>) :
        fs \in FieldLists}

\* one field whose arity, type and default vary
FieldAttributeSchemas ==
    {SchemaAst(<<>>, <<[name |-> "User",
                        fields |-> <<[name |-> "id", arity |-> a, field_type |-> t,
                                      directives |-> ds]>>,
                        directives |-> <<>>]>>) :
        a \in FieldArities, t \in FieldTypes, ds \in DefaultDirectiveLists}

\* one enum whose values vary
EnumValueSchemas ==
    {SchemaAst(<<[name |-> "Color", values |-> vs, directives |-> <<>>]>>, <<>>) :
        vs \in EnumValueLists}

\* the top-level declarations vary
TopSchemas == {SchemaAst(es, ms) : es \in TopEnumLists, ms \in TopModelLists}

\* one model with two fields, whose field directives and own directives vary
ModelSchemas ==
    {SchemaAst(<<>>, <<[name |-> "Post",
                        fields |-> <<IdField(fds),
                                     [name |-> "name", arity |-> "Optional",
                                      field_type |-> "String", directives |-> <<>>]>>,
                        directives |-> mds]>>) :
        fds \in DefaultDirectiveLists,
        mds \in {<<>>} \cup {<<[name |-> "map", arguments |-> al]>> : al \in PlainArgumentLists}}

Schemas ==
    FieldDirectiveSchemas \cup ModelDirectiveSchemas \cup EnumDirectiveSchemas
        \cup FieldSchemas \cup FieldAttributeSchemas \cup EnumValueSchemas \cup TopSchemas
        \cup ModelSchemas

(***************************************************************************)
(* The differs: a name-keyed three-way partition of the children of a      *)
(* pair (previous, next) into created, deleted and paired ones.  Created   *)
(* children are listed in the order of next, deleted and paired children   *)
(* in the order of previous.                                               *)
(***************************************************************************)
Created(previous, next) == SelectSeq(next, LAMBDA n : ~HasName(previous, n.name))

Deleted(previous, next) == SelectSeq(previous, LAMBDA p : ~HasName(next, p.name))

Pairs(previous, next) ==
    LET matched == SelectSeq(previous, LAMBDA p : HasName(next, p.name))
    IN  [i \in 1..Len(matched) |->
            [previous |-> matched[i], next |-> FindByName(next, matched[i].name)]]

\* TopDiffer
created_enums(differ) == Created(differ.previous.enums, differ.next.enums)
deleted_enums(differ) == Deleted(differ.previous.enums, differ.next.enums)
enum_pairs(differ) == Pairs(differ.previous.enums, differ.next.enums)
created_models(differ) == Created(differ.previous.models, differ.next.models)
deleted_models(differ) == Deleted(differ.previous.models, differ.next.models)
model_pairs(differ) == Pairs(differ.previous.models, differ.next.models)

\* EnumDiffer
created_values(differ) == Created(differ.previous.values, differ.next.values)
deleted_values(differ) == Deleted(differ.previous.values, differ.next.values)

\* ModelDiffer
created_fields(differ) == Created(differ.previous.fields, differ.next.fields)
deleted_fields(differ) == Deleted(differ.previous.fields, differ.next.fields)
field_pairs(differ) == Pairs(differ.previous.fields, differ.next.fields)

\* EnumDiffer, ModelDiffer and FieldDiffer
created_directives(differ) == Created(differ.previous.directives, differ.next.directives)
deleted_directives(differ) == Deleted(differ.previous.directives, differ.next.directives)
directive_pairs(differ) == Pairs(differ.previous.directives, differ.next.directives)

\* DirectiveDiffer
created_arguments(differ) == Created(differ.previous.arguments, differ.next.arguments)
deleted_arguments(differ) == Deleted(differ.previous.arguments, differ.next.arguments)
argument_pairs(differ) == Pairs(differ.previous.arguments, differ.next.arguments)

(***************************************************************************)
(* migration_connector::steps                                              *)
(***************************************************************************)
\* MigrationExpression::from_ast_expression renders the expression: the
\* value is kept, the source span is dropped.
from_ast_expression(expression) == expression.value

\* the value of the first argument of the first directive of that name
get_directive_string_value(name, directives) ==
    IF HasName(directives, name) /\ FindByName(directives, name).arguments # <<>>
    THEN Some(from_ast_expression(FindByName(directives, name).arguments[1].value))
    ELSE None

UpdateEnum_is_any_option_set(step) ==
    is_some(step.new_name) \/ step.created_values # <<>> \/ step.deleted_values # <<>>

UpdateField_is_any_option_set(step) ==
    is_some(step.arity) \/ is_some(step.new_name) \/ is_some(step.tpe) \/ is_some(step.default)

EnumLocation(enum) == [kind |-> "Enum", enum |-> enum]
ModelLocation(model) == [kind |-> "Model", model |-> model]
FieldLocation(model, field) == [kind |-> "Field", model |-> model, field |-> field]
DirectiveLocator(location, name) == [location |-> location, name |-> name]

(***************************************************************************)
(* datamodel_differ.rs.  Every push_* operator takes the steps pushed so   *)
(* far and returns them with its own steps appended; a for loop is the     *)
(* concatenation of the steps its iterations push.                         *)
(***************************************************************************)
\* mutant of diff_value: the comparison is dropped
diff_value_always_some(current, updated) == Some(updated)

diff_value(current, updated) == IF current = updated THEN None ELSE Some(updated)

push_created_directive_argument(steps, directive_location, argument) ==
    Append(steps, [tag |-> "CreateDirectiveArgument",
                   argument_name |-> argument.name,
                   argument_value |-> from_ast_expression(argument.value),
                   directive_location |-> directive_location])

\* mutant of push_updated_directive_argument: the AST expressions are compared
\* instead of the rendered values
push_updated_directive_argument_ast_compared(steps, directive_location, previous_argument, next_argument) ==
    IF previous_argument.value = next_argument.value
    THEN steps
    ELSE Append(steps, [tag |-> "UpdateDirectiveArgument",
                        argument_name |-> next_argument.name,
                        new_argument_value |-> from_ast_expression(next_argument.value),
                        directive_location |-> directive_location])

push_updated_directive_argument(steps, directive_location, previous_argument, next_argument) ==
    LET previous_value == from_ast_expression(previous_argument.value)
        next_value == from_ast_expression(next_argument.value)
    IN  IF previous_value = next_value
        THEN steps
        ELSE Append(steps, [tag |-> "UpdateDirectiveArgument",
                            argument_name |-> next_argument.name,
                            new_argument_value |-> next_value,
                            directive_location |-> directive_location])

push_deleted_directive_argument(steps, directive_location, argument_name) ==
    Append(steps, [tag |-> "DeleteDirectiveArgument",
                   argument_name |-> argument_name,
                   directive_location |-> directive_location])

push_created_directive(steps, location, directive) ==
    LET locator == DirectiveLocator(location, directive.name)
    IN  Append(steps, [tag |-> "CreateDirective", locator |-> locator])
            \o Flatten([i \in 1..Len(directive.arguments) |->
                   push_created_directive_argument(<<>>, locator, directive.arguments[i])])

push_created_directives(steps, location, directives) ==
    steps \o Flatten([i \in 1..Len(directives) |->
                 push_created_directive(<<>>, location, directives[i])])

push_deleted_directive(steps, location, directive) ==
    Append(steps, [tag |-> "DeleteDirective",
                   locator |-> DirectiveLocator(location, directive.name)])

push_deleted_directives(steps, location, directives) ==
    steps \o Flatten([i \in 1..Len(directives) |->
                 push_deleted_directive(<<>>, location, directives[i])])

push_updated_directive(steps, location, directive) ==
    LET locator == DirectiveLocator(location, directive.previous.name)
        created == created_arguments(directive)
        pairs == argument_pairs(directive)
        deleted == deleted_arguments(directive)
    IN  steps
            \o Flatten([i \in 1..Len(created) |->
                   push_created_directive_argument(<<>>, locator, created[i])])
            \o Flatten([i \in 1..Len(pairs) |->
                   push_updated_directive_argument(<<>>, locator, pairs[i].previous, pairs[i].next)])
            \o Flatten([i \in 1..Len(deleted) |->
                   push_deleted_directive_argument(<<>>, locator, deleted[i].name)])

push_updated_directives(steps, location, directives) ==
    steps \o Flatten([i \in 1..Len(directives) |->
                 push_updated_directive(<<>>, location, directives[i])])

push_created_enum(steps, enum) ==
    LET create_enum_step ==
            [tag |-> "CreateEnum",
             name |-> enum.name,
             values |-> [i \in 1..Len(enum.values) |-> enum.values[i].name]]
    IN  push_created_directives(Append(steps, create_enum_step),
                                EnumLocation(enum.name), enum.directives)

push_created_enums(steps, enums) ==
    steps \o Flatten([i \in 1..Len(enums) |-> push_created_enum(<<>>, enums[i])])

push_deleted_enums(steps, enums) ==
    steps \o [i \in 1..Len(enums) |-> [tag |-> "DeleteEnum", name |-> enums[i].name]]

\* mutant of push_updated_enum: new_name is the next name, changed or not
push_updated_enum_with_new_name(steps, updated_enum) ==
    LET created == created_values(updated_enum)
        deleted == deleted_values(updated_enum)
        update_enum_step ==
            [tag |-> "UpdateEnum",
             name |-> updated_enum.previous.name,
             new_name |-> Some(updated_enum.next.name),
             created_values |-> [i \in 1..Len(created) |-> created[i].name],
             deleted_values |-> [i \in 1..Len(deleted) |-> deleted[i].name]]
        location == EnumLocation(updated_enum.previous.name)
    IN  push_deleted_directives(
            push_updated_directives(
                push_created_directives(Append(steps, update_enum_step),
                                        location, created_directives(updated_enum)),
                location, directive_pairs(updated_enum)),
            location, deleted_directives(updated_enum))

\* mutant of push_updated_enum: created and deleted values are swapped
push_updated_enum_values_swapped(steps, updated_enum) ==
    LET created == created_values(updated_enum)
        deleted == deleted_values(updated_enum)
        update_enum_step ==
            [tag |-> "UpdateEnum",
             name |-> updated_enum.previous.name,
             new_name |-> diff_value(updated_enum.previous.name, updated_enum.next.name),
             created_values |-> [i \in 1..Len(deleted) |-> deleted[i].name],
             deleted_values |-> [i \in 1..Len(created) |-> created[i].name]]
        pushed == IF UpdateEnum_is_any_option_set(update_enum_step)
                  THEN Append(steps, update_enum_step)
                  ELSE steps
        location == EnumLocation(updated_enum.previous.name)
    IN  push_deleted_directives(
            push_updated_directives(
                push_created_directives(pushed, location, created_directives(updated_enum)),
                location, directive_pairs(updated_enum)),
            location, deleted_directives(updated_enum))

push_updated_enum(steps, updated_enum) ==
    LET created == created_values(updated_enum)
        deleted == deleted_values(updated_enum)
        update_enum_step ==
            [tag |-> "UpdateEnum",
             name |-> updated_enum.previous.name,
             new_name |-> diff_value(updated_enum.previous.name, updated_enum.next.name),
             created_values |-> [i \in 1..Len(created) |-> created[i].name],
             deleted_values |-> [i \in 1..Len(deleted) |-> deleted[i].name]]
        pushed == IF UpdateEnum_is_any_option_set(update_enum_step)
                  THEN Append(steps, update_enum_step)
                  ELSE steps
        location == EnumLocation(updated_enum.previous.name)
    IN  push_deleted_directives(
            push_updated_directives(
                push_created_directives(pushed, location, created_directives(updated_enum)),
                location, directive_pairs(updated_enum)),
            location, deleted_directives(updated_enum))

push_updated_enums(steps, enums) ==
    steps \o Flatten([i \in 1..Len(enums) |-> push_updated_enum(<<>>, enums[i])])

push_enums(steps, differ) ==
    push_updated_enums(
        push_deleted_enums(
            push_created_enums(steps, created_enums(differ)),
            deleted_enums(differ)),
        enum_pairs(differ))

\* the value of the first argument of the field's `default` directive
default_directive_value(directives) ==
    IF HasName(directives, "default") /\ Len(FindByName(directives, "default").arguments) >= 1
    THEN Some(from_ast_expression(FindByName(directives, "default").arguments[1].value))
    ELSE None

\* mutant of push_created_field: the default is not extracted
push_created_field_without_default(steps, model_name, field) ==
    LET create_field_step ==
            [tag |-> "CreateField",
             arity |-> field.arity,
             name |-> field.name,
             tpe |-> field.field_type,
             model |-> model_name,
             db_name |-> get_directive_string_value("map", field.directives),
             default |-> None]
    IN  push_created_directives(Append(steps, create_field_step),
                                FieldLocation(model_name, field.name), field.directives)

push_created_field(steps, model_name, field) ==
    LET create_field_step ==
            [tag |-> "CreateField",
             arity |-> field.arity,
             name |-> field.name,
             tpe |-> field.field_type,
             model |-> model_name,
             db_name |-> get_directive_string_value("map", field.directives),
             default |-> default_directive_value(field.directives)]
    IN  push_created_directives(Append(steps, create_field_step),
                                FieldLocation(model_name, field.name), field.directives)

push_created_fields(steps, model_name, fields) ==
    steps \o Flatten([i \in 1..Len(fields) |-> push_created_field(<<>>, model_name, fields[i])])

push_deleted_fields(steps, model_name, fields) ==
    steps \o [i \in 1..Len(fields) |->
                 [tag |-> "DeleteField", model |-> model_name, name |-> fields[i].name]]

\* mutant of push_updated_field: the step is pushed without asking
\* is_any_option_set
push_updated_field_unguarded(steps, model_name, field) ==
    LET update_field_step ==
            [tag |-> "UpdateField",
             arity |-> diff_value(field.previous.arity, field.next.arity),
             new_name |-> diff_value(field.previous.name, field.next.name),
             model |-> model_name,
             name |-> field.previous.name,
             tpe |-> diff_value(field.previous.field_type, field.next.field_type),
             default |-> diff_value(default_directive_value(field.previous.directives),
                                    default_directive_value(field.next.directives))]
        directive_location == FieldLocation(model_name, field.previous.name)
    IN  push_deleted_directives(
            push_updated_directives(
                push_created_directives(Append(steps, update_field_step),
                                        directive_location, created_directives(field)),
                directive_location, directive_pairs(field)),
            directive_location, deleted_directives(field))

\* mutant of push_updated_field: the default is the next default wherever
\* there is one, changed or not
push_updated_field_next_default(steps, model_name, field) ==
    LET next_default_directive == default_directive_value(field.next.directives)
        update_field_step ==
            [tag |-> "UpdateField",
             arity |-> diff_value(field.previous.arity, field.next.arity),
             new_name |-> diff_value(field.previous.name, field.next.name),
             model |-> model_name,
             name |-> field.previous.name,
             tpe |-> diff_value(field.previous.field_type, field.next.field_type),
             default |-> IF is_some(next_default_directive)
                         THEN Some(next_default_directive) ELSE None]
        pushed == IF UpdateField_is_any_option_set(update_field_step)
                  THEN Append(steps, update_field_step)
                  ELSE steps
        directive_location == FieldLocation(model_name, field.previous.name)
    IN  push_deleted_directives(
            push_updated_directives(
                push_created_directives(pushed, directive_location, created_directives(field)),
                directive_location, directive_pairs(field)),
            directive_location, deleted_directives(field))

push_updated_field(steps, model_name, field) ==
    LET previous_default_directive == default_directive_value(field.previous.directives)
        next_default_directive == default_directive_value(field.next.directives)
        update_field_step ==
            [tag |-> "UpdateField",
             arity |-> diff_value(field.previous.arity, field.next.arity),
             new_name |-> diff_value(field.previous.name, field.next.name),
             model |-> model_name,
             name |-> field.previous.name,
             tpe |-> diff_value(field.previous.field_type, field.next.field_type),
             default |-> diff_value(previous_default_directive, next_default_directive)]
        pushed == IF UpdateField_is_any_option_set(update_field_step)
                  THEN Append(steps, update_field_step)
                  ELSE steps
        directive_location == FieldLocation(model_name, field.previous.name)
    IN  push_deleted_directives(
            push_updated_directives(
                push_created_directives(pushed, directive_location, created_directives(field)),
                directive_location, directive_pairs(field)),
            directive_location, deleted_directives(field))

push_updated_fields(steps, model_name, fields) ==
    steps \o Flatten([i \in 1..Len(fields) |-> push_updated_field(<<>>, model_name, fields[i])])

\* mutant of push_created_model: the directives of the model are pushed
\* before its fields
push_created_model_directives_first(steps, created_model) ==
    LET create_model_step ==
            [tag |-> "CreateModel",
             name |-> created_model.name,
             embedded |-> FALSE,
             db_name |-> get_directive_string_value("map", created_model.directives)]
    IN  push_created_fields(
            push_created_directives(Append(steps, create_model_step),
                                    ModelLocation(created_model.name),
                                    created_model.directives),
            created_model.name, created_model.fields)

push_created_model(steps, created_model) ==
    LET create_model_step ==
            [tag |-> "CreateModel",
             name |-> created_model.name,
             embedded |-> FALSE,
             db_name |-> get_directive_string_value("map", created_model.directives)]
    IN  push_created_directives(
            push_created_fields(Append(steps, create_model_step),
                                created_model.name, created_model.fields),
            ModelLocation(created_model.name), created_model.directives)

push_created_models(steps, models) ==
    steps \o Flatten([i \in 1..Len(models) |-> push_created_model(<<>>, models[i])])

push_deleted_models(steps, models) ==
    steps \o [i \in 1..Len(models) |-> [tag |-> "DeleteModel", name |-> models[i].name]]

\* mutant of push_updated_model: the deleted fields are not pushed
push_updated_model_without_deleted_fields(steps, model) ==
    LET model_name == model.previous.name
        directive_location == ModelLocation(model_name)
    IN  push_deleted_directives(
            push_updated_directives(
                push_created_directives(
                    push_updated_fields(
                        push_created_fields(steps, model_name, created_fields(model)),
                        model_name, field_pairs(model)),
                    directive_location, created_directives(model)),
                directive_location, directive_pairs(model)),
            directive_location, deleted_directives(model))

\* mutant of push_updated_model: the updated fields are pushed first
push_updated_model_updated_fields_first(steps, model) ==
    LET model_name == model.previous.name
        directive_location == ModelLocation(model_name)
    IN  push_deleted_directives(
            push_updated_directives(
                push_created_directives(
                    push_deleted_fields(
                        push_created_fields(
                            push_updated_fields(steps, model_name, field_pairs(model)),
                            model_name, created_fields(model)),
                        model_name, deleted_fields(model)),
                    directive_location, created_directives(model)),
                directive_location, directive_pairs(model)),
            directive_location, deleted_directives(model))

push_updated_model(steps, model) ==
    LET model_name == model.previous.name
        directive_location == ModelLocation(model_name)
    IN  push_deleted_directives(
            push_updated_directives(
                push_created_directives(
                    push_updated_fields(
                        push_deleted_fields(
                            push_created_fields(steps, model_name, created_fields(model)),
                            model_name, deleted_fields(model)),
                        model_name, field_pairs(model)),
                    directive_location, created_directives(model)),
                directive_location, directive_pairs(model)),
            directive_location, deleted_directives(model))

push_updated_models(steps, models) ==
    steps \o Flatten([i \in 1..Len(models) |-> push_updated_model(<<>>, models[i])])

\* mutant of push_models: the enums are deleted after the models are pushed
push_models_then_deleted_enums(steps, differ) ==
    push_deleted_enums(
        push_updated_models(
            push_deleted_models(
                push_created_models(steps, created_models(differ)),
                deleted_models(differ)),
            model_pairs(differ)),
        deleted_enums(differ))

push_models(steps, differ) ==
    push_updated_models(
        push_deleted_models(
            push_created_models(steps, created_models(differ)),
            deleted_models(differ)),
        model_pairs(differ))

TopDiffer(previous, next) == [previous |-> previous, next |-> next]

diff(previous, next) ==
    LET differ == TopDiffer(previous, next)
    IN  push_models(push_enums(<<>>, differ), differ)

(***************************************************************************)
(* The datamodel: the name-keyed structure of a schema.  Children are      *)
(* sets keyed by name, argument values are rendered expressions, and a     *)
(* field carries its default value.                                        *)
(***************************************************************************)
LiftArguments(arguments) ==
    {[name |-> a.name, value |-> from_ast_expression(a.value)] : a \in Range(arguments)}

LiftDirectives(directives) ==
    {[name |-> d.name, arguments |-> LiftArguments(d.arguments)] : d \in Range(directives)}

LiftField(field) ==
    [name |-> field.name, arity |-> field.arity, tpe |-> field.field_type,
     default |-> default_directive_value(field.directives),
     directives |-> LiftDirectives(field.directives)]

LiftModel(model) ==
    [name |-> model.name,
     fields |-> {LiftField(f) : f \in Range(model.fields)},
     directives |-> LiftDirectives(model.directives)]

LiftEnum(enum) ==
    [name |-> enum.name,
     values |-> {v.name : v \in Range(enum.values)},
     directives |-> LiftDirectives(enum.directives)]

Lift(schema) ==
    [enums |-> {LiftEnum(e) : e \in Range(schema.enums)},
     models |-> {LiftModel(m) : m \in Range(schema.models)}]

EmptyDatamodel == [enums |-> {}, models |-> {}]

(***************************************************************************)
(* The datamodel calculator: infer folds the steps, in order, onto a       *)
(* datamodel.  Create adds the declaration with the value the step         *)
(* carries, Update patches the attributes the step has set, Delete removes *)
(* the declaration with the step's key.                                    *)
(***************************************************************************)
\* the owners (enum, model or field) of the directives at a location
OwnersAt(datamodel, location) ==
    CASE location.kind = "Enum" -> {e \in datamodel.enums : e.name = location.enum}
      [] location.kind = "Model" -> {m \in datamodel.models : m.name = location.model}
      [] location.kind = "Field" ->
           UNION {{f \in m.fields : f.name = location.field} :
                     m \in {n \in datamodel.models : n.name = location.model}}

DirectivesAt(datamodel, location) ==
    UNION {o.directives : o \in OwnersAt(datamodel, location)}

\* the datamodel with the directives at a location replaced
WithDirectives(datamodel, location, directives) ==
    CASE location.kind = "Enum" ->
           [datamodel EXCEPT !.enums =
               {IF e.name = location.enum
                THEN [e EXCEPT !.directives = directives] ELSE e : e \in @}]
      [] location.kind = "Model" ->
           [datamodel EXCEPT !.models =
               {IF m.name = location.model
                THEN [m EXCEPT !.directives = directives] ELSE m : m \in @}]
      [] location.kind = "Field" ->
           [datamodel EXCEPT !.models =
               {IF m.name = location.model
                THEN [m EXCEPT !.fields =
                         {IF f.name = location.field
                          THEN [f EXCEPT !.directives = directives] ELSE f : f \in @}]
                ELSE m : m \in @}]

ArgumentsAt(datamodel, locator) ==
    UNION {d.arguments :
              d \in {c \in DirectivesAt(datamodel, locator.location) : c.name = locator.name}}

\* the datamodel with the arguments of the directive at a locator replaced
WithArguments(datamodel, locator, arguments) ==
    WithDirectives(datamodel, locator.location,
                   {IF d.name = locator.name
                    THEN [d EXCEPT !.arguments = arguments] ELSE d :
                       d \in DirectivesAt(datamodel, locator.location)})

Patch(option, value) == IF is_some(option) THEN option[1] ELSE value

apply_step(datamodel, step) ==
    CASE step.tag = "CreateEnum" ->
           [datamodel EXCEPT !.enums =
               @ \cup {[name |-> step.name, values |-> Range(step.values), directives |-> {}]}]
      [] step.tag = "DeleteEnum" ->
           [datamodel EXCEPT !.enums = {e \in @ : e.name # step.name}]
      [] step.tag = "UpdateEnum" ->
           [datamodel EXCEPT !.enums =
               {IF e.name = step.name
                THEN [e EXCEPT !.name = Patch(step.new_name, @),
                               !.values = (@ \ Range(step.deleted_values))
                                              \cup Range(step.created_values)]
                ELSE e : e \in @}]
      [] step.tag = "CreateModel" ->
           [datamodel EXCEPT !.models =
               @ \cup {[name |-> step.name, fields |-> {}, directives |-> {}]}]
      [] step.tag = "DeleteModel" ->
           [datamodel EXCEPT !.models = {m \in @ : m.name # step.name}]
      [] step.tag = "CreateField" ->
           [datamodel EXCEPT !.models =
               {IF m.name = step.model
                THEN [m EXCEPT !.fields =
                         @ \cup {[name |-> step.name, arity |-> step.arity, tpe |-> step.tpe,
                                  default |-> step.default, directives |-> {}]}]
                ELSE m : m \in @}]
      [] step.tag = "DeleteField" ->
           [datamodel EXCEPT !.models =
               {IF m.name = step.model
                THEN [m EXCEPT !.fields = {f \in @ : f.name # step.name}]
                ELSE m : m \in @}]
      [] step.tag = "UpdateField" ->
           [datamodel EXCEPT !.models =
               {IF m.name = step.model
                THEN [m EXCEPT !.fields =
                         {IF f.name = step.name
                          THEN [f EXCEPT !.name = Patch(step.new_name, @),
                                         !.arity = Patch(step.arity, @),
                                         !.tpe = Patch(step.tpe, @),
                                         !.default = Patch(step.default, @)]
                          ELSE f : f \in @}]
                ELSE m : m \in @}]
      [] step.tag = "CreateDirective" ->
           WithDirectives(datamodel, step.locator.location,
                          DirectivesAt(datamodel, step.locator.location)
                              \cup {[name |-> step.locator.name, arguments |-> {}]})
      [] step.tag = "DeleteDirective" ->
           WithDirectives(datamodel, step.locator.location,
                          {d \in DirectivesAt(datamodel, step.locator.location) :
                              d.name # step.locator.name})
      [] step.tag = "CreateDirectiveArgument" ->
           WithArguments(datamodel, step.directive_location,
                         ArgumentsAt(datamodel, step.directive_location)
                             \cup {[name |-> step.argument_name,
                                    value |-> step.argument_value]})
      [] step.tag = "UpdateDirectiveArgument" ->
           WithArguments(datamodel, step.directive_location,
                         {IF a.name = step.argument_name
                          THEN [a EXCEPT !.value = step.new_argument_value] ELSE a :
                             a \in ArgumentsAt(datamodel, step.directive_location)})
      [] step.tag = "DeleteDirectiveArgument" ->
           WithArguments(datamodel, step.directive_location,
                         {a \in ArgumentsAt(datamodel, step.directive_location) :
                             a.name # step.argument_name})

RECURSIVE datamodel_calculator_infer(_, _)
datamodel_calculator_infer(current, migration_steps) ==
    IF migration_steps = <<>>
    THEN current
    ELSE datamodel_calculator_infer(apply_step(current, Head(migration_steps)),
                                    Tail(migration_steps))

(***************************************************************************)
(* The run of diff on a pair of schemas.                                   *)
(***************************************************************************)
VARIABLES previous, next, steps, datamodel, pc

differ_vars == <<previous, next, steps, datamodel, pc>>

(***************************************************************************)
(* The state of the SQL migration connector (sql-migration-connector       *)
(* lib.rs) and of its target database, and the state of one run of the     *)
(* infer-migration-steps command (commands/infer_migration_steps.rs).      *)
(* Each specification runs one of the three machines and leaves the other  *)
(* two at rest.                                                            *)
(***************************************************************************)
VARIABLES provider, database_str, conn_pc, elapsed, conn_error, stages, io_log,
          db, op_pc, calls, handles

connector_vars ==
    <<provider, database_str, conn_pc, elapsed, conn_error, stages, io_log,
      db, op_pc, calls, handles>>

VARIABLES cmd_pc, assume_to_be_applied, data_model, persisted, engine_log,
          current_data_model, next_data_model, model_migration_steps,
          database_migration, output

command_vars ==
    <<cmd_pc, assume_to_be_applied, data_model, persisted, engine_log,
      current_data_model, next_data_model, model_migration_steps,
      database_migration, output>>

vars == <<differ_vars, connector_vars, command_vars>>

EmptyDatabase == [databases |-> {}, schemas |-> {}, directories |-> {}, stores |-> {}]

DifferAtRest ==
    /\ previous = SchemaAst(<<>>, <<>>)
    /\ next = SchemaAst(<<>>, <<>>)
    /\ steps = <<>>
    /\ datamodel = EmptyDatamodel
    /\ pc = "rest"

ConnectorAtRest ==
    /\ provider = "sqlite"
    /\ database_str = <<>>
    /\ conn_pc = "rest"
    /\ elapsed = 0
    /\ conn_error = None
    /\ stages = <<>>
    /\ io_log = <<>>
    /\ db = EmptyDatabase
    /\ op_pc = "rest"
    /\ calls = <<>>
    /\ handles = {}

CommandAtRest ==
    /\ cmd_pc = "rest"
    /\ assume_to_be_applied = <<>>
    /\ data_model = None
    /\ persisted = EmptyDatamodel
    /\ engine_log = <<>>
    /\ current_data_model = EmptyDatamodel
    /\ next_data_model = EmptyDatamodel
    /\ model_migration_steps = <<>>
    /\ database_migration = None
    /\ output = None

Init ==
    /\ previous \in Schemas
    /\ next \in Schemas
    /\ steps = <<>>
    /\ datamodel = Lift(previous)
    /\ pc = "diff"
    /\ ConnectorAtRest
    /\ CommandAtRest

PushEnums ==
    /\ pc = "diff"
    /\ steps' = push_enums(steps, TopDiffer(previous, next))
    /\ pc' = "push_models"
    /\ UNCHANGED <<previous, next, datamodel, connector_vars, command_vars>>

PushModels ==
    /\ pc = "push_models"
    /\ steps' = push_models(steps, TopDiffer(previous, next))
    /\ pc' = "done"
    /\ UNCHANGED <<previous, next, datamodel, connector_vars, command_vars>>

\* the steps of the finished diff are folded onto the previous datamodel
Calculate ==
    /\ pc = "done"
    /\ datamodel' = datamodel_calculator_infer(datamodel, steps)
    /\ pc' = "calculated"
    /\ UNCHANGED <<previous, next, steps, connector_vars, command_vars>>

Next == PushEnums \/ PushModels \/ Calculate

Spec == Init /\ [][Next]_vars

Finished == pc \in {"done", "calculated"}

(***************************************************************************)
(* Vocabulary of the properties: the declarations of previous and next     *)
(* that bear the same name, and the steps of the list by position.         *)
(***************************************************************************)
SameName(ps, ns) == {pn \in Range(ps) \X Range(ns) : pn[1].name = pn[2].name}

Names(s) == {s[i].name : i \in 1..Len(s)}

PairedEnums == SameName(previous.enums, next.enums)

PairedModels == SameName(previous.models, next.models)

PairedFields ==
    UNION {{[model |-> pm[1].name, previous |-> pf[1], next |-> pf[2]] :
               pf \in SameName(pm[1].fields, pm[2].fields)} : pm \in PairedModels}

\* the paired declarations that own directives, with their location
PairedOwners ==
    {[location |-> EnumLocation(pe[1].name),
      previous |-> pe[1].directives, next |-> pe[2].directives] : pe \in PairedEnums}
    \cup {[location |-> ModelLocation(pm[1].name),
           previous |-> pm[1].directives, next |-> pm[2].directives] : pm \in PairedModels}
    \cup {[location |-> FieldLocation(pf.model, pf.previous.name),
           previous |-> pf.previous.directives, next |-> pf.next.directives] :
              pf \in PairedFields}

PairedDirectives ==
    UNION {{[locator |-> DirectiveLocator(o.location, pd[1].name),
             previous |-> pd[1].arguments, next |-> pd[2].arguments] :
               pd \in SameName(o.previous, o.next)} : o \in PairedOwners}

PairedArguments ==
    UNION {{[locator |-> d.locator, previous |-> pa[1], next |-> pa[2]] :
               pa \in SameName(d.previous, d.next)} : d \in PairedDirectives}

StepIndexes == 1..Len(steps)

Tagged(tags) == {i \in StepIndexes : steps[i].tag \in tags}

DirectiveTags == {"CreateDirective", "DeleteDirective"}

ArgumentTags ==
    {"CreateDirectiveArgument", "UpdateDirectiveArgument", "DeleteDirectiveArgument"}

\* the locator of a directive or directive-argument step
LocatorOf(step) ==
    IF step.tag \in DirectiveTags THEN step.locator ELSE step.directive_location

\* C1: applying the steps of diff(previous, next), in their emitted order, to
\* previous yields a datamodel structurally equal to next.
C1_ApplyDiffYieldsNext == pc = "calculated" => datamodel = Lift(next)

C1_Witness ==
    /\ pc = "calculated"
    /\ Lift(previous) # Lift(next)
    /\ Tagged({"UpdateField"}) # {}
    /\ Tagged({"DeleteField"}) # {}
    /\ datamodel = Lift(next)

\* C2: diff(A, A) is the empty step list.
C2_DiffOfEqualIsEmpty == (Finished /\ previous = next) => steps = <<>>

C2_Witness ==
    /\ pc = "done"
    /\ previous = next
    /\ previous.enums # <<>>
    /\ previous.models # <<>>
    /\ steps = <<>>

(***************************************************************************)
(* C3.  The rank of a step among the children of an updated entity: the    *)
(* steps of a created child, of an updated child, of a deleted child.      *)
(***************************************************************************)
\* steps about the fields of the paired model pm, by position
FieldStepsOf(pm) ==
    {i \in StepIndexes :
        \/ steps[i].tag \in {"CreateField", "UpdateField", "DeleteField"}
              /\ steps[i].model = pm[1].name
        \/ steps[i].tag \in DirectiveTags \cup ArgumentTags
              /\ LocatorOf(steps[i]).location.kind = "Field"
              /\ LocatorOf(steps[i]).location.model = pm[1].name}

FieldNameOf(step) ==
    IF step.tag \in {"CreateField", "UpdateField", "DeleteField"}
    THEN step.name
    ELSE LocatorOf(step).location.field

\* "created", "updated" or "deleted": what happened to the field the step is about
FieldChildKind(pm, step) ==
    IF FieldNameOf(step) \notin Names(pm[1].fields) THEN "created"
    ELSE IF FieldNameOf(step) \notin Names(pm[2].fields) THEN "deleted"
    ELSE "updated"

\* steps about the directives of the paired owner o, by position
DirectiveStepsOf(o) ==
    {i \in StepIndexes :
        /\ steps[i].tag \in DirectiveTags \cup ArgumentTags
        /\ LocatorOf(steps[i]).location = o.location}

DirectiveChildKind(o, step) ==
    IF LocatorOf(step).name \notin Names(o.previous) THEN "created"
    ELSE IF LocatorOf(step).name \notin Names(o.next) THEN "deleted"
    ELSE "updated"

\* steps about the arguments of the paired directive d, by position
ArgumentStepsOf(d) ==
    {i \in StepIndexes :
        /\ steps[i].tag \in ArgumentTags
        /\ steps[i].directive_location = d.locator}

ArgumentChildKind(d, step) ==
    IF step.argument_name \notin Names(d.previous) THEN "created"
    ELSE IF step.argument_name \notin Names(d.next) THEN "deleted"
    ELSE "updated"

CreatedUpdatedDeleted == [created |-> 1, updated |-> 2, deleted |-> 3]

CreatedDeletedUpdated == [created |-> 1, deleted |-> 2, updated |-> 3]

FieldsInOrder(rank) ==
    \A pm \in PairedModels : \A i, j \in FieldStepsOf(pm) :
        i < j => rank[FieldChildKind(pm, steps[i])] <= rank[FieldChildKind(pm, steps[j])]

DirectivesInOrder(rank) ==
    \A o \in PairedOwners : \A i, j \in DirectiveStepsOf(o) :
        i < j => rank[DirectiveChildKind(o, steps[i])] <= rank[DirectiveChildKind(o, steps[j])]

ArgumentsInOrder(rank) ==
    \A d \in PairedDirectives : \A i, j \in ArgumentStepsOf(d) :
        i < j => rank[ArgumentChildKind(d, steps[i])] <= rank[ArgumentChildKind(d, steps[j])]

\* C3 (as stated): within an updated entity the steps of created children
\* precede those of updated children, which precede those of deleted
\* children, for fields, directives and directive arguments alike.
C3_CreatedUpdatedDeleted ==
    pc = "done" =>
        /\ FieldsInOrder(CreatedUpdatedDeleted)
        /\ DirectivesInOrder(CreatedUpdatedDeleted)
        /\ ArgumentsInOrder(CreatedUpdatedDeleted)

\* C3 (amended): the fields of an updated model come created, then deleted,
\* then updated; the directives of an updated model, field or enum and the
\* arguments of an updated directive come created, then updated, then deleted.
C3_ChildrenOrder ==
    pc = "done" =>
        /\ FieldsInOrder(CreatedDeletedUpdated)
        /\ DirectivesInOrder(CreatedUpdatedDeleted)
        /\ ArgumentsInOrder(CreatedUpdatedDeleted)

\* an updated model whose deleted field's step is followed by the step of an
\* updated field
C3_Witness ==
    /\ pc = "done"
    /\ \E pm \in PairedModels : \E i, j \in FieldStepsOf(pm) :
          /\ i < j
          /\ steps[i].tag = "DeleteField"
          /\ steps[j].tag = "UpdateField"

(***************************************************************************)
(* C4.  The default value of a field: the value of the first argument of   *)
(* its `default` directive.                                                *)
(***************************************************************************)
DefaultOf(field) ==
    LET ds == {d \in Range(field.directives) : d.name = "default" /\ d.arguments # <<>>}
    IN  IF ds = {} THEN <<>> ELSE <<(CHOOSE d \in ds : TRUE).arguments[1].value.value>>

\* the fields of next that previous does not have, with their model
CreatedFields ==
    UNION {{[model |-> m.name, field |-> f] :
               f \in {g \in Range(m.fields) :
                         \A pm \in Range(previous.models) :
                             pm.name = m.name => g.name \notin Names(pm.fields)}} :
           m \in Range(next.models)}

FieldSteps(tag, model, name) ==
    {i \in Tagged({tag}) : steps[i].model = model /\ steps[i].name = name}

\* the steps of these tags about the `default` directive of a field
DefaultDirectiveSteps(tags, model, name) ==
    {i \in Tagged(tags) :
        LocatorOf(steps[i]) = DirectiveLocator(FieldLocation(model, name), "default")}

\* the default is carried by the owning field's step
DefaultIsFolded ==
    /\ \A pf \in PairedFields :
          DefaultOf(pf.previous) # DefaultOf(pf.next) =>
              /\ Cardinality(FieldSteps("UpdateField", pf.model, pf.previous.name)) = 1
              /\ \A i \in FieldSteps("UpdateField", pf.model, pf.previous.name) :
                    steps[i].default = <<DefaultOf(pf.next)>>
    /\ \A cf \in CreatedFields :
          DefaultOf(cf.field) # <<>> =>
              /\ Cardinality(FieldSteps("CreateField", cf.model, cf.field.name)) = 1
              /\ \A i \in FieldSteps("CreateField", cf.model, cf.field.name) :
                    steps[i].default = DefaultOf(cf.field)

IsEnumLevel(step) ==
    \/ step.tag \in {"CreateEnum", "DeleteEnum", "UpdateEnum"}
    \/ step.tag \in DirectiveTags \cup ArgumentTags
          /\ LocatorOf(step).location.kind = "Enum"

IsModelLevel(step) ==
    \/ step.tag \in {"CreateModel", "DeleteModel", "CreateField", "UpdateField", "DeleteField"}
    \/ step.tag \in DirectiveTags \cup ArgumentTags
          /\ LocatorOf(step).location.kind \in {"Model", "Field"}

\* C5: every enum-level step occurs before every model-level step.
C5_EnumsBeforeModels ==
    \A i, j \in StepIndexes :
        (IsEnumLevel(steps[i]) /\ IsModelLevel(steps[j])) => i < j

C5_Witness ==
    /\ pc = "done"
    /\ \E i, j \in StepIndexes :
          /\ steps[i].tag = "DeleteEnum"
          /\ steps[j].tag = "CreateModel"
          /\ i < j

(***************************************************************************)
(* C6.  No empty Update step.                                              *)
(***************************************************************************)
\* C6: diff emits no UpdateField whose arity, new_name, tpe and default are
\* all absent, and no UpdateEnum whose new_name is absent and whose
\* created_values and deleted_values are both empty.
C6_NoEmptyUpdate ==
    /\ \A i \in Tagged({"UpdateField"}) :
          ~(/\ steps[i].arity = None
            /\ steps[i].new_name = None
            /\ steps[i].tpe = None
            /\ steps[i].default = None)
    /\ \A i \in Tagged({"UpdateEnum"}) :
          ~(/\ steps[i].new_name = None
            /\ steps[i].created_values = <<>>
            /\ steps[i].deleted_values = <<>>)

\* a paired field whose attributes are unchanged and whose directives
\* changed: directive steps are emitted for it and no UpdateField
C6_Witness ==
    /\ pc = "done"
    /\ \E pf \in PairedFields :
          /\ pf.previous.arity = pf.next.arity
          /\ pf.previous.field_type = pf.next.field_type
          /\ DefaultOf(pf.previous) = DefaultOf(pf.next)
          /\ pf.previous.directives # pf.next.directives
          /\ FieldSteps("UpdateField", pf.model, pf.previous.name) = {}
          /\ steps # <<>>

(***************************************************************************)
(* C7.  Directive arguments paired by name.                                *)
(***************************************************************************)
ArgumentUpdates(pa) ==
    {i \in Tagged({"UpdateDirectiveArgument"}) :
        /\ steps[i].directive_location = pa.locator
        /\ steps[i].argument_name = pa.previous.name}

\* C7: for a directive argument paired by name, diff emits exactly one
\* UpdateDirectiveArgument, carrying only the new value, when the two values
\* differ, and no step for that argument when they are equal.
C7_PairedArgument ==
    pc = "done" =>
        \A pa \in PairedArguments :
            IF pa.previous.value.value # pa.next.value.value
            THEN /\ Cardinality(ArgumentUpdates(pa)) = 1
                 /\ \A i \in ArgumentUpdates(pa) :
                       /\ steps[i].new_argument_value = pa.next.value.value
                       /\ DOMAIN steps[i] = {"tag", "argument_name", "new_argument_value",
                                             "directive_location"}
            ELSE {i \in Tagged(ArgumentTags) :
                     /\ steps[i].directive_location = pa.locator
                     /\ steps[i].argument_name = pa.previous.name} = {}

\* one paired argument whose value changed and one whose value is the same
\* expression at another place of the source text
C7_Witness ==
    /\ pc = "done"
    /\ \E pa, pb \in PairedArguments :
          /\ pa.previous.value.value # pa.next.value.value
          /\ ArgumentUpdates(pa) # {}
          /\ pb.locator = pa.locator
          /\ pb.previous.value.value = pb.next.value.value
          /\ pb.previous.value.span # pb.next.value.span

(***************************************************************************)
(* C8.  UpdateField is a sparse patch.                                     *)
(***************************************************************************)
\* C8: for a paired field, each of arity, tpe and default of the UpdateField
\* step is set if and only if that attribute differs between the previous
\* and the next field, and then carries the next value; a removed default is
\* a set attribute whose value is "no default".
C8_UpdateFieldOnlyChanged ==
    pc = "done" =>
        \A pf \in PairedFields :
            LET updates == FieldSteps("UpdateField", pf.model, pf.previous.name)
                arity_changed == pf.previous.arity # pf.next.arity
                tpe_changed == pf.previous.field_type # pf.next.field_type
                default_changed == DefaultOf(pf.previous) # DefaultOf(pf.next)
            IN  /\ Cardinality(updates) =
                      IF arity_changed \/ tpe_changed \/ default_changed THEN 1 ELSE 0
                /\ \A i \in updates :
                      /\ steps[i].arity = IF arity_changed THEN <<pf.next.arity>> ELSE <<>>
                      /\ steps[i].tpe = IF tpe_changed THEN <<pf.next.field_type>> ELSE <<>>
                      /\ steps[i].default =
                            IF default_changed THEN <<DefaultOf(pf.next)>> ELSE <<>>

\* the default of a paired field is removed and its type changes: the step
\* sets tpe and sets default to "no default", and leaves arity absent
C8_Witness ==
    /\ pc = "done"
    /\ \E pf \in PairedFields :
          /\ DefaultOf(pf.previous) # <<>>
          /\ DefaultOf(pf.next) = <<>>
          /\ pf.previous.field_type # pf.next.field_type
          /\ \E i \in FieldSteps("UpdateField", pf.model, pf.previous.name) :
                /\ steps[i].default = << <<>> >>
                /\ steps[i].tpe = <<pf.next.field_type>>
                /\ steps[i].arity = <<>>

(***************************************************************************)
(* C9.  Renames are never inferred.                                        *)
(***************************************************************************)
NamedSteps(tag, name) == {i \in Tagged({tag}) : steps[i].name = name}

\* C9: a declaration (enum, model, field of a paired model) whose name only
\* previous has yields a Delete step, one whose name only next has yields a
\* Create step, and no Update step has its new_name set.
C9_NoRenames ==
    pc = "done" =>
        /\ \A i \in Tagged({"UpdateEnum", "UpdateField"}) : steps[i].new_name = None
        /\ \A e \in Range(previous.enums) :
              e.name \notin Names(next.enums) =>
                  /\ Cardinality(NamedSteps("DeleteEnum", e.name)) = 1
                  /\ NamedSteps("UpdateEnum", e.name) = {}
        /\ \A e \in Range(next.enums) :
              e.name \notin Names(previous.enums) =>
                  Cardinality(NamedSteps("CreateEnum", e.name)) = 1
        /\ \A m \in Range(previous.models) :
              m.name \notin Names(next.models) =>
                  Cardinality(NamedSteps("DeleteModel", m.name)) = 1
        /\ \A m \in Range(next.models) :
              m.name \notin Names(previous.models) =>
                  Cardinality(NamedSteps("CreateModel", m.name)) = 1
        /\ \A pm \in PairedModels :
              /\ \A f \in Range(pm[1].fields) :
                    f.name \notin Names(pm[2].fields) =>
                        /\ Cardinality(FieldSteps("DeleteField", pm[1].name, f.name)) = 1
                        /\ FieldSteps("UpdateField", pm[1].name, f.name) = {}
              /\ \A f \in Range(pm[2].fields) :
                    f.name \notin Names(pm[1].fields) =>
                        Cardinality(FieldSteps("CreateField", pm[1].name, f.name)) = 1

\* the only field of a paired model changes its name and nothing else: the
\* steps are the creation of the new field and the deletion of the old one
C9_Witness ==
    /\ pc = "done"
    /\ \E pm \in PairedModels :
          /\ Len(pm[1].fields) = 1
          /\ Len(pm[2].fields) = 1
          /\ pm[1].fields[1].name # pm[2].fields[1].name
          /\ [pm[1].fields[1] EXCEPT !.name = pm[2].fields[1].name] = pm[2].fields[1]
          /\ Len(steps) = 2
          /\ steps[1].tag = "CreateField"
          /\ steps[2].tag = "DeleteField"

(***************************************************************************)
(* C10.  The values of an updated enum.                                    *)
(***************************************************************************)
ValueNames(enum) == {v.name : v \in Range(enum.values)}

NoDuplicates(s) == Cardinality(Range(s)) = Len(s)

\* C10: for an enum of the same name in previous and next whose value sets
\* differ, diff emits exactly one UpdateEnum, whose created_values are the
\* values of next that previous does not have and whose deleted_values are
\* the values of previous that next does not have.
C10_UpdateEnumValues ==
    pc = "done" =>
        \A pe \in PairedEnums :
            ValueNames(pe[1]) # ValueNames(pe[2]) =>
                /\ Cardinality(NamedSteps("UpdateEnum", pe[1].name)) = 1
                /\ \A i \in NamedSteps("UpdateEnum", pe[1].name) :
                      /\ Range(steps[i].created_values) = ValueNames(pe[2]) \ ValueNames(pe[1])
                      /\ Range(steps[i].deleted_values) = ValueNames(pe[1]) \ ValueNames(pe[2])
                      /\ NoDuplicates(steps[i].created_values)
                      /\ NoDuplicates(steps[i].deleted_values)

\* Color {RED, BLUE} becomes Color {RED, GREEN}
C10_Witness ==
    /\ pc = "done"
    /\ \E pe \in PairedEnums :
          /\ ValueNames(pe[1]) = {"RED", "BLUE"}
          /\ ValueNames(pe[2]) = {"RED", "GREEN"}
          /\ \E i \in NamedSteps("UpdateEnum", pe[1].name) :
                /\ steps[i].created_values = <<"GREEN">>
                /\ steps[i].deleted_values = <<"BLUE">>

(***************************************************************************)
(* C20.  The steps of a created declaration.                               *)
(***************************************************************************)
\* the directives the schema declares at a location
AstDirectivesAt(schema, location) ==
    CASE location.kind = "Enum" -> FindByName(schema.enums, location.enum).directives
      [] location.kind = "Model" -> FindByName(schema.models, location.model).directives
      [] location.kind = "Field" ->
           FindByName(FindByName(schema.models, location.model).fields,
                      location.field).directives

CreatedModels == {m \in Range(next.models) : m.name \notin Names(previous.models)}

CreatedEnums == {e \in Range(next.enums) : e.name \notin Names(previous.enums)}

\* the steps located at a model, or at a field of it, by position
StepsLocatedAt(location) ==
    {i \in Tagged(DirectiveTags \cup ArgumentTags) : LocatorOf(steps[i]).location = location}

\* the steps about the fields of a model: CreateField and the steps located
\* at one of its fields
FieldLevelSteps(model) ==
    {i \in Tagged({"CreateField"}) : steps[i].model = model}
    \cup {i \in Tagged(DirectiveTags \cup ArgumentTags) :
             /\ LocatorOf(steps[i]).location.kind = "Field"
             /\ LocatorOf(steps[i]).location.model = model}

\* C20: for a created declaration the parent's step comes before the steps
\* of what it contains: CreateModel before every CreateField of the model,
\* each CreateField before the directive steps of its field, the model's own
\* directive steps after all steps of its fields, CreateEnum before the
\* enum's directive steps; and each CreateDirective is followed at once by
\* one CreateDirectiveArgument per argument, in declaration order.
C20_CreatedParentFirst ==
    pc = "done" =>
        /\ \A m \in CreatedModels :
              /\ Cardinality(NamedSteps("CreateModel", m.name)) = 1
              /\ \A f \in Range(m.fields) :
                    /\ Cardinality(FieldSteps("CreateField", m.name, f.name)) = 1
                    /\ \A c \in NamedSteps("CreateModel", m.name) :
                          \A i \in FieldSteps("CreateField", m.name, f.name) :
                              /\ c < i
                              /\ \A j \in StepsLocatedAt(FieldLocation(m.name, f.name)) : i < j
                    /\ Cardinality({j \in StepsLocatedAt(FieldLocation(m.name, f.name)) :
                                       steps[j].tag = "CreateDirective"}) = Len(f.directives)
              /\ \A i \in FieldLevelSteps(m.name) :
                    \A j \in StepsLocatedAt(ModelLocation(m.name)) : i < j
              /\ Cardinality({j \in StepsLocatedAt(ModelLocation(m.name)) :
                                 steps[j].tag = "CreateDirective"}) = Len(m.directives)
        /\ \A e \in CreatedEnums :
              /\ Cardinality(NamedSteps("CreateEnum", e.name)) = 1
              /\ \A c \in NamedSteps("CreateEnum", e.name) :
                    \A j \in StepsLocatedAt(EnumLocation(e.name)) : c < j
              /\ Cardinality({j \in StepsLocatedAt(EnumLocation(e.name)) :
                                 steps[j].tag = "CreateDirective"}) = Len(e.directives)
        /\ \A i \in Tagged({"CreateDirective"}) :
              LET locator == steps[i].locator
                  arguments ==
                      FindByName(AstDirectivesAt(next, locator.location), locator.name).arguments
              IN  /\ i + Len(arguments) <= Len(steps)
                  /\ \A k \in 1..Len(arguments) :
                        steps[i + k] = [tag |-> "CreateDirectiveArgument",
                                        argument_name |-> arguments[k].name,
                                        argument_value |-> arguments[k].value.value,
                                        directive_location |-> locator]
                  /\ i + Len(arguments) + 1 <= Len(steps) =>
                        ~(/\ steps[i + Len(arguments) + 1].tag = "CreateDirectiveArgument"
                          /\ steps[i + Len(arguments) + 1].directive_location = locator)

\* a created model with two fields, a `default` directive with an argument on
\* the first field and a `map` directive with an argument of its own
C20_Witness ==
    /\ pc = "done"
    /\ \E m \in CreatedModels :
          /\ Len(m.fields) = 2
          /\ m.fields[1].directives # <<>>
          /\ m.fields[1].directives[1].arguments # <<>>
          /\ m.directives # <<>>
          /\ m.directives[1].arguments # <<>>
          /\ Len(steps) = 7
          /\ steps[1].tag = "CreateModel"
          /\ steps[2].tag = "CreateField"
          /\ steps[3].tag = "CreateDirective"
          /\ steps[4].tag = "CreateDirectiveArgument"
          /\ steps[5].tag = "CreateField"
          /\ steps[6].tag = "CreateDirective"
          /\ steps[7].tag = "CreateDirectiveArgument"

(***************************************************************************)
(* The SQL migration connector (sql-migration-connector/src/lib.rs).       *)
(* Strings that the code takes apart are sequences of characters.          *)
(***************************************************************************)
MaxCalls == 2

CONNECTION_TIMEOUT == 10

SchemeMysql == <<"m", "y", "s", "q", "l">>
SchemePostgres == <<"p", "o", "s", "t", "g", "r", "e", "s">>
SchemePostgresql == SchemePostgres \o <<"q", "l">>
SchemeFile == <<"f", "i", "l", "e">>
SchemeSqlite == <<"s", "q", "l", "i", "t", "e">>

\* the schemes of the match arms, a scheme that only starts with postgres, a
\* prefix of postgres, and an unrelated one
Schemes ==
    {SchemeMysql, SchemePostgres, SchemePostgresql, SchemePostgres \o <<"x">>,
     <<"p", "o", "s", "t">>, SchemeFile, SchemeSqlite, <<"h", "t", "t", "p">>}

Providers == {"mysql", "postgres", "postgresql", "sqlite", "mongo"}

\* scheme://host/..., scheme:/ (a path without a parent directory), and the
\* bare scheme without a separator
DatabaseStrs ==
    {scheme \o rest : scheme \in Schemes, rest \in {<<":", "/", "/", "h">>, <<":", "/">>, <<>>}}

DatabaseNames == {"a", "b"}

\* what the driver reports when an open or a query fails
DriverErrors == {"AuthenticationFailed", "ConnectionError"}

HandleKinds ==
    {"migration_persistence", "database_migration_inferrer",
     "database_migration_step_applier", "destructive_changes_checker"}

Ok == [tag |-> "Ok"]
Err(error) == [tag |-> "Err", error |-> error]
Panic(message) == [tag |-> "Panic", message |-> message]
Pending == [tag |-> "Pending"]

\* database_str.split(":").next()
split_scheme(str) ==
    IF \E i \in 1..Len(str) : str[i] = ":"
    THEN SubSeq(str, 1, (CHOOSE i \in 1..Len(str) :
                            str[i] = ":" /\ \A j \in 1..(i - 1) : str[j] # ":") - 1)
    ELSE str

starts_with(str, prefix) ==
    Len(str) >= Len(prefix) /\ SubSeq(str, 1, Len(prefix)) = prefix

\* mutant of validate_database_str: the provider is not looked at
validate_database_str_any_provider(str, family) ==
    LET scheme == split_scheme(str)
    IN  IF scheme \in {SchemeMysql, SchemeFile, SchemeSqlite}
              \/ starts_with(scheme, SchemePostgres)
        THEN Ok
        ELSE Err([kind |-> "InvalidDatabaseUrl", cause |-> None, connection_info |-> None])

validate_database_str(str, family) ==
    LET scheme == split_scheme(str)
    IN  IF \/ family = "mysql" /\ scheme = SchemeMysql
           \/ family = "postgresql" /\ starts_with(scheme, SchemePostgres)
           \/ family = "postgres" /\ starts_with(scheme, SchemePostgres)
           \/ family = "sqlite" /\ scheme \in {SchemeFile, SchemeSqlite}
        THEN Ok
        ELSE Err([kind |-> "InvalidDatabaseUrl", cause |-> None, connection_info |-> None])

\* ConnectionInfo::from_url: the family follows from the scheme; an sqlite
\* path has a parent directory unless it is the root
from_url(str) ==
    LET scheme == split_scheme(str)
        rest == SubSeq(str, Len(scheme) + 1, Len(str))
        family == CASE scheme = SchemeMysql -> "Mysql"
                    [] scheme \in {SchemePostgres, SchemePostgresql} -> "Postgres"
                    [] scheme \in {SchemeFile, SchemeSqlite} -> "Sqlite"
                    [] OTHER -> "Unknown"
    IN  IF family = "Unknown" \/ rest = <<>> \/ (family # "Sqlite" /\ rest = <<":", "/">>)
        THEN Err("UrlParseError")
        ELSE [tag |-> "Ok",
              value |-> [sql_family |-> family,
                         schema_name |-> "schema",
                         parent_directory |->
                             IF family = "Sqlite" /\ rest # <<":", "/">>
                             THEN Some("directory") ELSE None]]

connection_info == from_url(database_str).value

url_parse_error(err, str) ==
    [kind |-> "InvalidDatabaseUrl", cause |-> Some(err), connection_info |-> None]

\* SqlError::into_connector_error: the connector error wraps the driver's
\* error and carries the connection information
into_connector_error(sql_error, info) ==
    [kind |-> sql_error, cause |-> Some(sql_error), connection_info |-> Some(info)]

\* mutant of connect_timeout_error: the timeout is reported as a connection error
connect_timeout_error_as_connection_error(info) ==
    into_connector_error("ConnectionError", info)

\* the error of an elapsed connect timeout
connect_timeout_error(info) == into_connector_error("ConnectTimeout", info)

catch(info, result) ==
    IF result.tag = "Err" THEN Err(into_connector_error(result.error, info)) ELSE result

Fail(error) ==
    /\ conn_pc' = "Failed"
    /\ conn_error' = Some(error)

ConnectorInit ==
    /\ provider \in Providers
    /\ database_str \in DatabaseStrs
    /\ conn_pc = "Unconnected"
    /\ elapsed = 0
    /\ conn_error = None
    /\ stages = <<>>
    /\ io_log = <<>>
    /\ db = EmptyDatabase
    /\ op_pc = "idle"
    /\ calls = <<>>
    /\ handles = {}
    /\ DifferAtRest
    /\ CommandAtRest

\* new: validate_database_str(database_str, provider)?
Validate ==
    /\ conn_pc = "Unconnected"
    /\ LET result == validate_database_str(database_str, provider)
       IN  IF result.tag = "Err"
           THEN Fail(result.error) /\ UNCHANGED stages
           ELSE /\ conn_pc' = "Validated"
                /\ stages' = Append(stages, "validated")
                /\ UNCHANGED conn_error
    /\ UNCHANGED <<provider, database_str, elapsed, io_log, db, op_pc, calls, handles,
                   differ_vars, command_vars>>

\* new: ConnectionInfo::from_url(database_str), then the connection future is
\* awaited under the timeout and the open is issued
ParseUrlAndOpen ==
    /\ conn_pc = "Validated"
    /\ LET result == from_url(database_str)
       IN  IF result.tag = "Err"
           THEN Fail(url_parse_error(result.error, database_str)) /\ UNCHANGED io_log
           ELSE /\ conn_pc' = "Opening"
                /\ io_log' = Append(io_log, "open")
                /\ UNCHANGED conn_error
    /\ UNCHANGED <<provider, database_str, elapsed, stages, db, op_pc, calls, handles,
                   differ_vars, command_vars>>

\* new: Quaint::new(database_str) completes before the timeout; on success
\* the probe query is issued
OpenCompletes ==
    /\ conn_pc = "Opening"
    /\ elapsed < CONNECTION_TIMEOUT
    /\ \E outcome \in {"ok"} \cup DriverErrors :
          IF outcome = "ok"
          THEN /\ conn_pc' = "Probing"
               /\ stages' = Append(stages, "opened")
               /\ io_log' = Append(io_log, "SELECT 1")
               /\ UNCHANGED conn_error
          ELSE /\ Fail(into_connector_error(outcome, connection_info))
               /\ UNCHANGED <<stages, io_log>>
    /\ UNCHANGED <<provider, database_str, elapsed, db, op_pc, calls, handles,
                   differ_vars, command_vars>>

\* mutant of ProbeCompletes: an error of the probe query is ignored
ProbeCompletes_ignoring_errors ==
    /\ conn_pc = "Probing"
    /\ elapsed < CONNECTION_TIMEOUT
    /\ \E outcome \in {"ok"} \cup DriverErrors :
          /\ conn_pc' = "Connected"
          /\ stages' = IF outcome = "ok" THEN Append(stages, "probed") ELSE stages
          /\ UNCHANGED conn_error
    /\ UNCHANGED <<provider, database_str, elapsed, io_log, db, op_pc, calls, handles,
                   differ_vars, command_vars>>

\* new: query_raw("SELECT 1") completes before the timeout
ProbeCompletes ==
    /\ conn_pc = "Probing"
    /\ elapsed < CONNECTION_TIMEOUT
    /\ \E outcome \in {"ok"} \cup DriverErrors :
          IF outcome = "ok"
          THEN /\ conn_pc' = "Connected"
               /\ stages' = Append(stages, "probed")
               /\ UNCHANGED conn_error
          ELSE /\ Fail(into_connector_error(outcome, connection_info))
               /\ UNCHANGED stages
    /\ UNCHANGED <<provider, database_str, elapsed, io_log, db, op_pc, calls, handles,
                   differ_vars, command_vars>>

\* time passes while the connection future is pending
Tick ==
    /\ conn_pc \in {"Opening", "Probing"}
    /\ elapsed < CONNECTION_TIMEOUT
    /\ elapsed' = elapsed + 1
    /\ UNCHANGED <<provider, database_str, conn_pc, conn_error, stages, io_log, db, op_pc,
                   calls, handles, differ_vars, command_vars>>

\* new: tokio::time::timeout(CONNECTION_TIMEOUT, connection_fut) elapses
ConnectTimeout ==
    /\ conn_pc \in {"Opening", "Probing"}
    /\ elapsed = CONNECTION_TIMEOUT
    /\ Fail(connect_timeout_error(connection_info))
    /\ UNCHANGED <<provider, database_str, elapsed, stages, io_log, db, op_pc, calls,
                   handles, differ_vars, command_vars>>

\* new: DatabaseInfo::new resolves the engine family and the schema name
Identify ==
    /\ conn_pc = "Connected"
    /\ \E outcome \in {"ok"} \cup DriverErrors :
          IF outcome = "ok"
          THEN /\ conn_pc' = "Identified"
               /\ stages' = Append(stages, "identified")
               /\ UNCHANGED conn_error
          ELSE /\ Fail(into_connector_error(outcome, connection_info))
               /\ UNCHANGED stages
    /\ io_log' = Append(io_log, "database info")
    /\ UNCHANGED <<provider, database_str, elapsed, db, op_pc, calls, handles,
                   differ_vars, command_vars>>

\* new: the describer of the family is chosen and Ok(Self) is returned
BecomeReady ==
    /\ conn_pc = "Identified"
    /\ conn_pc' = "Ready"
    /\ UNCHANGED <<provider, database_str, elapsed, conn_error, stages, io_log, db, op_pc,
                   calls, handles, differ_vars, command_vars>>

\* migration_persistence, database_migration_inferrer,
\* database_migration_step_applier, destructive_changes_checker: methods of
\* the connector that new returned
GetHandle ==
    /\ conn_pc = "Ready"
    /\ op_pc = "idle"
    /\ \E handle \in HandleKinds : handles' = handles \cup {handle}
    /\ UNCHANGED <<provider, database_str, conn_pc, elapsed, conn_error, stages, io_log, db,
                   op_pc, calls, differ_vars, command_vars>>

\* what the database server does with CREATE DATABASE name: an error when
\* the statement cannot be run or when the database exists already
create_database_query(database, db_name, fault) ==
    IF fault THEN [result |-> Err("ConnectionError"), db |-> database]
    ELSE IF db_name \in database.databases
    THEN [result |-> Err("DatabaseAlreadyExists"), db |-> database]
    ELSE [result |-> Ok,
          db |-> [database EXCEPT !.databases = database.databases \cup {db_name}]]

\* what the database server does with CREATE SCHEMA IF NOT EXISTS name
create_schema_if_not_exists_query(database, schema_name, fault) ==
    IF fault THEN [result |-> Err("ConnectionError"), db |-> database]
    ELSE [result |-> Ok,
          db |-> [database EXCEPT !.schemas = database.schemas \cup {schema_name}]]

\* what the database server does with CREATE SCHEMA name: an error when the
\* schema exists already
create_schema_query(database, schema_name, fault) ==
    IF fault THEN [result |-> Err("ConnectionError"), db |-> database]
    ELSE IF schema_name \in database.schemas
    THEN [result |-> Err("SchemaAlreadyExists"), db |-> database]
    ELSE [result |-> Ok,
          db |-> [database EXCEPT !.schemas = database.schemas \cup {schema_name}]]

\* fs::create_dir_all(parent_directory).expect(...): creates the directory
\* when absent; a failure aborts the caller
create_dir_all_expect(database, directory, fault) ==
    IF fault
    THEN [result |-> Panic("creating the database folders failed"), db |-> database]
    ELSE [result |-> Ok,
          db |-> [database EXCEPT !.directories = database.directories \cup {directory}]]

create_database_impl(info, database, db_name, fault) ==
    CASE info.sql_family = "Postgres" -> create_database_query(database, db_name, fault)
      [] info.sql_family = "Sqlite" -> [result |-> Ok, db |-> database]
      [] info.sql_family = "Mysql" -> create_database_query(database, db_name, fault)

\* mutant of initialize_impl: the schema is created without IF NOT EXISTS
initialize_impl_without_if_not_exists(info, database, fault) ==
    CASE info.sql_family = "Sqlite" ->
            IF is_some(info.parent_directory)
            THEN create_dir_all_expect(database, info.parent_directory[1], fault)
            ELSE [result |-> Ok, db |-> database]
      [] info.sql_family = "Postgres" ->
            create_schema_query(database, info.schema_name, fault)
      [] info.sql_family = "Mysql" ->
            create_schema_query(database, info.schema_name, fault)

initialize_impl(info, database, fault) ==
    CASE info.sql_family = "Sqlite" ->
            IF is_some(info.parent_directory)
            THEN create_dir_all_expect(database, info.parent_directory[1], fault)
            ELSE [result |-> Ok, db |-> database]
      [] info.sql_family = "Postgres" ->
            create_schema_if_not_exists_query(database, info.schema_name, fault)
      [] info.sql_family = "Mysql" ->
            create_schema_if_not_exists_query(database, info.schema_name, fault)

\* MigrationPersistence::init: creates the bookkeeping store if absent
migration_persistence_init(info, database, fault) ==
    IF fault
    THEN [result |-> Err(into_connector_error("QueryError", info)), db |-> database]
    ELSE [result |-> Ok,
          db |-> [database EXCEPT !.stores = database.stores \cup {"_Migration"}]]

\* MigrationPersistence::reset: clears the bookkeeping store and the
\* working schema
migration_persistence_reset(info, database, fault) ==
    IF fault
    THEN [result |-> Err(into_connector_error("QueryError", info)), db |-> database]
    ELSE [result |-> Ok, db |-> [database EXCEPT !.stores = {}, !.schemas = {}]]

CanCall ==
    /\ conn_pc = "Ready"
    /\ op_pc = "idle"
    /\ Len(calls) < MaxCalls

Call(op, arg, fault, impl, result, init_invoked, before, after) ==
    [op |-> op, arg |-> arg, fault |-> fault, impl |-> impl, result |-> result,
     init_invoked |-> init_invoked, init_result |-> None, before |-> before,
     after |-> after]

\* create_database: catch(self.connection_info(), self.create_database_impl(db_name))
CreateDatabase ==
    /\ CanCall
    /\ \E db_name \in DatabaseNames, fault \in BOOLEAN :
          LET out == create_database_impl(connection_info, db, db_name, fault)
          IN  /\ db' = out.db
              /\ calls' = Append(calls, Call("create_database", db_name, fault, out.result,
                                             catch(connection_info, out.result), 0,
                                             db, out.db))
    /\ UNCHANGED <<provider, database_str, conn_pc, elapsed, conn_error, stages, io_log,
                   op_pc, handles, differ_vars, command_vars>>

\* initialize: catch(self.connection_info(), self.initialize_impl()).await?
InitializeSchema ==
    /\ CanCall
    /\ \E fault \in BOOLEAN :
          LET out == initialize_impl(connection_info, db, fault)
              caught == catch(connection_info, out.result)
          IN  /\ db' = out.db
              /\ calls' = Append(calls, Call("initialize", "", fault, out.result,
                                             IF caught.tag = "Ok" THEN Pending ELSE caught,
                                             0, db, out.db))
              /\ op_pc' = CASE caught.tag = "Ok" -> "persistence_init"
                            [] caught.tag = "Err" -> "idle"
                            [] caught.tag = "Panic" -> "aborted"
    /\ UNCHANGED <<provider, database_str, conn_pc, elapsed, conn_error, stages, io_log,
                   handles, differ_vars, command_vars>>

\* initialize: self.migration_persistence().init().await?; Ok(())
InitializePersistence ==
    /\ op_pc = "persistence_init"
    /\ \E fault \in BOOLEAN :
          LET out == migration_persistence_init(connection_info, db, fault)
              call == calls[Len(calls)]
          IN  /\ db' = out.db
              /\ calls' = [calls EXCEPT ![Len(calls)] =
                              [call EXCEPT !.fault = call.fault \/ fault,
                                           !.result = out.result,
                                           !.init_invoked = call.init_invoked + 1,
                                           !.init_result = Some(out.result),
                                           !.after = out.db]]
    /\ op_pc' = "idle"
    /\ UNCHANGED <<provider, database_str, conn_pc, elapsed, conn_error, stages, io_log,
                   handles, differ_vars, command_vars>>

\* reset: self.migration_persistence().reset().await?; Ok(())
Reset ==
    /\ CanCall
    /\ \E fault \in BOOLEAN :
          LET out == migration_persistence_reset(connection_info, db, fault)
          IN  /\ db' = out.db
              /\ calls' = Append(calls, Call("reset", "", fault, out.result, out.result, 0,
                                             db, out.db))
    /\ UNCHANGED <<provider, database_str, conn_pc, elapsed, conn_error, stages, io_log,
                   op_pc, handles, differ_vars, command_vars>>

ConnectorNext ==
    \/ Validate
    \/ ParseUrlAndOpen
    \/ OpenCompletes
    \/ ProbeCompletes
    \/ Tick
    \/ ConnectTimeout
    \/ Identify
    \/ BecomeReady
    \/ GetHandle
    \/ CreateDatabase
    \/ InitializeSchema
    \/ InitializePersistence
    \/ Reset

\* the runtime's timer advances and fires while the connection is pending
SpecConnector ==
    ConnectorInit /\ [][ConnectorNext]_vars /\ WF_vars(Tick) /\ WF_vars(ConnectTimeout)

(***************************************************************************)
(* Claims about the connector.                                             *)
(***************************************************************************)
\* the pairs of engine family and scheme that belong together
SchemeMatchesFamily(family, scheme) ==
    \/ family = "mysql" /\ scheme = SchemeMysql
    \/ family \in {"postgres", "postgresql"} /\ scheme \in {SchemePostgres, SchemePostgresql}
    \/ family = "sqlite" /\ scheme \in {SchemeFile, SchemeSqlite}

Mismatch == ~SchemeMatchesFamily(provider, split_scheme(database_str))

InvalidDescriptorError ==
    [kind |-> "InvalidDatabaseUrl", cause |-> None, connection_info |-> None]

Connecting == conn_pc \in {"Opening", "Probing"}

C12_ValidationAcceptsExactly ==
    conn_pc # "Unconnected" =>
        IF SchemeMatchesFamily(provider, split_scheme(database_str))
        THEN Len(stages) >= 1 /\ stages[1] = "validated"
        ELSE /\ stages = <<>>
             /\ conn_pc = "Failed"
             /\ conn_error = Some(InvalidDescriptorError)

\* C13: a connector is Ready only after validation, a successful open, a
\* successful probe query and a successful resolution of family and schema
\* name, in this order; a failed construction carries an error; a handle is
\* held only from a Ready connector.
C13_ReadyOnlyAfterAllStages ==
    /\ conn_pc = "Ready" =>
          /\ stages = <<"validated", "opened", "probed", "identified">>
          /\ io_log = <<"open", "SELECT 1", "database info">>
          /\ conn_error = None
    /\ conn_pc = "Failed" => is_some(conn_error) /\ Len(stages) < 4
    /\ handles # {} => conn_pc = "Ready"

\* every handle has been obtained from a Ready connector
C13_Witness ==
    /\ conn_pc = "Ready"
    /\ handles = HandleKinds

\* C14: when the connect timeout elapses before the open and the probe have
\* both completed, construction fails with ConnectTimeout, which is not one
\* of the errors of a failing open or probe, and no connector results; a
\* failure is a ConnectTimeout only in that case; construction always leaves
\* Connecting.
C14_ConnectTimeout ==
    /\ [][Connecting /\ elapsed = CONNECTION_TIMEOUT =>
            /\ conn_pc' = "Failed"
            /\ is_some(conn_error') /\ conn_error'[1].kind = "ConnectTimeout"]_vars
    /\ [](is_some(conn_error) =>
            /\ conn_pc = "Failed" /\ handles = {}
            /\ conn_error[1].kind = "ConnectTimeout" <=>
                   (elapsed = CONNECTION_TIMEOUT /\ "probed" \notin Range(stages))
            /\ conn_error[1].kind = "ConnectTimeout" => conn_error[1].kind \notin DriverErrors)
    /\ Connecting ~> ~Connecting

\* the probe was pending when the timeout elapsed
C14_Witness ==
    /\ conn_pc = "Failed"
    /\ stages = <<"validated", "opened">>
    /\ elapsed = CONNECTION_TIMEOUT
    /\ conn_error = Some([kind |-> "ConnectTimeout", cause |-> Some("ConnectTimeout"),
                          connection_info |-> Some(connection_info)])

CallIndexes == 1..Len(calls)

Returned(call) == call.result.tag # "Pending"

\* a returned error is a connector error that wraps the driver's error and
\* carries the connection information
IsWrapped(result) ==
    /\ result.tag = "Err"
    /\ is_some(result.error.cause)
    /\ result.error.connection_info = Some(connection_info)

\* C15: an initialize that follows a successful initialize on the same
\* target and meets no failure of the database succeeds too and changes
\* nothing: schemas, directories and bookkeeping stores are those the first
\* call left.
C15_InitializeTwice ==
    \A i \in CallIndexes : \A j \in CallIndexes :
        (/\ j = i + 1
         /\ calls[i].op = "initialize" /\ calls[i].result = Ok
         /\ calls[j].op = "initialize" /\ Returned(calls[j]) /\ ~calls[j].fault)
        => /\ calls[j].result = Ok
           /\ calls[j].init_invoked = 1
           /\ calls[j].after = calls[i].after
           /\ calls[j].after.schemas = calls[j].before.schemas
           /\ calls[j].after.stores = calls[j].before.stores

\* initialize has succeeded twice on a postgres target
C15_Witness ==
    /\ Len(calls) = 2
    /\ connection_info.sql_family = "Postgres"
    /\ calls[1].op = "initialize" /\ calls[1].result = Ok
    /\ calls[2].op = "initialize" /\ calls[2].result = Ok
    /\ db.schemas = {"schema"}
    /\ db.stores = {"_Migration"}

\* C16: a create_database that follows a successful create_database with
\* the same name on the same target and meets no failure of the connection
\* succeeds and leaves the set of databases as it was.
C16_CreateDatabaseIdempotent ==
    \A i \in CallIndexes : \A j \in CallIndexes :
        (/\ j = i + 1
         /\ calls[i].op = "create_database" /\ calls[i].result = Ok
         /\ calls[j].op = "create_database" /\ calls[j].arg = calls[i].arg
         /\ ~calls[j].fault)
        => /\ calls[j].result = Ok
           /\ calls[j].after.databases = calls[i].after.databases

\* C17: every failure of construction after the connection was attempted,
\* of create_database and of initialize is returned as a connector error
\* that wraps the driver's error and carries the connection information;
\* no call ends in an abort.
C17_FailuresAreWrapped ==
    /\ (conn_pc = "Failed" /\ io_log # <<>>) =>
          /\ is_some(conn_error)
          /\ is_some(conn_error[1].cause)
          /\ conn_error[1].connection_info = Some(connection_info)
    /\ op_pc # "aborted"
    /\ \A i \in CallIndexes :
          (calls[i].op \in {"create_database", "initialize"} /\ Returned(calls[i]))
          => calls[i].result = Ok \/ IsWrapped(calls[i].result)

\* C18: when the schema-creation step of initialize fails, initialize
\* returns that error wrapped and the persistence init is not invoked; when
\* it succeeds, init is invoked exactly once and initialize returns what
\* init returned.
C18_PersistenceInitAfterSchema ==
    \A i \in CallIndexes :
        calls[i].op = "initialize" =>
            IF calls[i].impl.tag = "Ok"
            THEN Returned(calls[i]) =>
                    /\ calls[i].init_invoked = 1
                    /\ calls[i].init_result = Some(calls[i].result)
            ELSE /\ calls[i].init_invoked = 0
                 /\ calls[i].result.tag = "Err"
                 /\ calls[i].result = catch(connection_info, calls[i].impl)

(***************************************************************************)
(* The infer-migration-steps command (commands/infer_migration_steps.rs).  *)
(* The input data_model is a source text: either the text of a schema or   *)
(* a text that does not parse.  The components of the engine that the      *)
(* command calls are recorded in engine_log.                               *)
(***************************************************************************)
CommandSchemas == TopSchemas

\* datamodel::parse: the datamodel of the text, or a parse error
datamodel_parse(text) ==
    IF is_some(text) THEN [tag |-> "Ok", value |-> Lift(text[1])] ELSE Err("ParseError")

\* a schema whose datamodel is the given one
RenderAst(dm) == CHOOSE schema \in CommandSchemas : Lift(schema) = dm

\* DataModelMigrationStepsInferrer::infer: the diff of the two datamodels
datamodel_migration_steps_inferrer_infer(current, target) ==
    diff(RenderAst(current), RenderAst(target))

\* DatabaseMigrationInferrer::infer: the database migration of the two
\* datamodels and the steps
database_migration_inferrer_infer(current, target, migration_steps) ==
    [previous |-> current, next |-> target, steps |-> migration_steps]

\* DatabaseMigrationStepApplier::render_steps_pretty: one rendered entry for
\* each step of the database migration
render_steps_pretty(migration) ==
    [i \in 1..Len(migration.steps) |-> [raw |-> migration.steps[i].tag]]

\* mutant of choose_current_data_model: persistence is read in both cases
choose_current_data_model_always_persisted(assume, persisted_datamodel) ==
    [value |-> persisted_datamodel, called |-> "migration_persistence.current_datamodel"]

\* execute: the current datamodel is the persisted one when
\* assume_to_be_applied is empty, and else the steps folded onto the empty
\* datamodel
choose_current_data_model(assume, persisted_datamodel) ==
    IF assume = <<>>
    THEN [value |-> persisted_datamodel, called |-> "migration_persistence.current_datamodel"]
    ELSE [value |-> datamodel_calculator_infer(EmptyDatamodel, assume),
          called |-> "datamodel_calculator.infer"]

CommandInit ==
    /\ cmd_pc = "start"
    /\ assume_to_be_applied \in {diff(SchemaAst(<<>>, <<>>), schema) : schema \in CommandSchemas}
    /\ data_model \in {None} \cup {Some(schema) : schema \in CommandSchemas}
    /\ persisted \in {Lift(schema) : schema \in CommandSchemas}
    /\ engine_log = <<>>
    /\ current_data_model = EmptyDatamodel
    /\ next_data_model = EmptyDatamodel
    /\ model_migration_steps = <<>>
    /\ database_migration = None
    /\ output = None
    /\ DifferAtRest
    /\ ConnectorAtRest

ChooseCurrentDatamodel ==
    /\ cmd_pc = "start"
    /\ LET chosen == choose_current_data_model(assume_to_be_applied, persisted)
       IN  /\ current_data_model' = chosen.value
           /\ engine_log' = Append(engine_log, chosen.called)
    /\ cmd_pc' = "parse"
    /\ UNCHANGED <<assume_to_be_applied, data_model, persisted, next_data_model,
                   model_migration_steps, database_migration, output,
                   differ_vars, connector_vars>>

\* execute: let next_data_model = datamodel::parse(&self.input.data_model)?
ParseNextDatamodel ==
    /\ cmd_pc = "parse"
    /\ LET parsed == datamodel_parse(data_model)
       IN  IF parsed.tag = "Ok"
           THEN /\ next_data_model' = parsed.value
                /\ cmd_pc' = "infer_steps"
                /\ UNCHANGED output
           ELSE /\ output' = Some(parsed)
                /\ cmd_pc' = "done"
                /\ UNCHANGED next_data_model
    /\ engine_log' = Append(engine_log, "datamodel.parse")
    /\ UNCHANGED <<assume_to_be_applied, data_model, persisted, current_data_model,
                   model_migration_steps, database_migration,
                   differ_vars, connector_vars>>

InferModelMigrationSteps ==
    /\ cmd_pc = "infer_steps"
    /\ model_migration_steps' =
           datamodel_migration_steps_inferrer_infer(current_data_model, next_data_model)
    /\ engine_log' = Append(engine_log, "datamodel_migration_steps_inferrer.infer")
    /\ cmd_pc' = "infer_database"
    /\ UNCHANGED <<assume_to_be_applied, data_model, persisted, current_data_model,
                   next_data_model, database_migration, output,
                   differ_vars, connector_vars>>

InferDatabaseMigration ==
    /\ cmd_pc = "infer_database"
    /\ database_migration' =
           Some(database_migration_inferrer_infer(current_data_model, next_data_model,
                                                  model_migration_steps))
    /\ engine_log' = Append(engine_log, "database_migration_inferrer.infer")
    /\ cmd_pc' = "render"
    /\ UNCHANGED <<assume_to_be_applied, data_model, persisted, current_data_model,
                   next_data_model, model_migration_steps, output,
                   differ_vars, connector_vars>>

\* mutant of RenderAndReturn: the destructive-changes check is run and its
\* warnings are returned
RenderAndReturn_with_destructive_check ==
    /\ cmd_pc = "render"
    /\ output' = Some([tag |-> "Ok",
                       value |-> [datamodel_steps |-> model_migration_steps,
                                  database_steps |-> render_steps_pretty(database_migration[1]),
                                  errors |-> <<>>,
                                  warnings |-> [i \in 1..Len(model_migration_steps) |->
                                                   model_migration_steps[i].tag],
                                  general_errors |-> <<>>]])
    /\ engine_log' = engine_log \o <<"destructive_changes_checker.check",
                                     "database_migration_step_applier.render_steps_pretty">>
    /\ cmd_pc' = "done"
    /\ UNCHANGED <<assume_to_be_applied, data_model, persisted, current_data_model,
                   next_data_model, model_migration_steps, database_migration,
                   differ_vars, connector_vars>>

\* execute: the steps are rendered and the output is returned
RenderAndReturn ==
    /\ cmd_pc = "render"
    /\ output' = Some([tag |-> "Ok",
                       value |-> [datamodel_steps |-> model_migration_steps,
                                  database_steps |-> render_steps_pretty(database_migration[1]),
                                  errors |-> <<>>,
                                  warnings |-> <<>>,
                                  general_errors |-> <<>>]])
    /\ engine_log' = Append(engine_log, "database_migration_step_applier.render_steps_pretty")
    /\ cmd_pc' = "done"
    /\ UNCHANGED <<assume_to_be_applied, data_model, persisted, current_data_model,
                   next_data_model, model_migration_steps, database_migration,
                   differ_vars, connector_vars>>

CommandNext ==
    \/ ChooseCurrentDatamodel
    \/ ParseNextDatamodel
    \/ InferModelMigrationSteps
    \/ InferDatabaseMigration
    \/ RenderAndReturn

SpecCommand == CommandInit /\ [][CommandNext]_vars

(***************************************************************************)
(* Claims about the infer-migration-steps command.                         *)
(***************************************************************************)
Occurrences(log, entry) == Cardinality({i \in 1..Len(log) : log[i] = entry})

PersistenceReads == Occurrences(engine_log, "migration_persistence.current_datamodel")

\* C19: once the command has chosen its current datamodel, that datamodel
\* is the persisted one, read once, when assume_to_be_applied is empty, and
\* else the datamodel of the schema whose creation the assumed steps
\* describe, with no read of persistence; the steps of a successful output
\* are the steps that were passed to the database migration inferrer.
C19_CurrentDatamodelAndSteps ==
    /\ cmd_pc \notin {"start", "rest"} =>
          IF assume_to_be_applied = <<>>
          THEN current_data_model = persisted /\ PersistenceReads = 1
          ELSE /\ PersistenceReads = 0
               /\ \A schema \in CommandSchemas :
                      assume_to_be_applied = diff(SchemaAst(<<>>, <<>>), schema)
                          => current_data_model = Lift(schema)
    /\ (is_some(output) /\ output[1].tag = "Ok") =>
          /\ is_some(database_migration)
          /\ output[1].value.datamodel_steps = database_migration[1].steps
          /\ database_migration[1].steps =
                 diff(RenderAst(current_data_model), RenderAst(next_data_model))

\* steps were assumed applied, persistence holds another datamodel, and the
\* command returned steps
C19_Witness ==
    /\ cmd_pc = "done"
    /\ assume_to_be_applied # <<>>
    /\ persisted # current_data_model
    /\ persisted # EmptyDatamodel
    /\ is_some(output) /\ output[1].tag = "Ok"
    /\ output[1].value.datamodel_steps # <<>>

\* the calls of the command that read, diff, infer or render
PreviewCalls ==
    {"migration_persistence.current_datamodel", "datamodel_calculator.infer",
     "datamodel.parse", "datamodel_migration_steps_inferrer.infer",
     "database_migration_inferrer.infer",
     "database_migration_step_applier.render_steps_pretty"}

\* C21: the command only reads the current datamodel, parses, diffs, infers
\* and renders: every call it makes is one of these, each made at most once,
\* so it never applies steps, writes a migration record or runs the
\* destructive-changes check; the persisted datamodel and the target
\* database never change; errors, warnings and general_errors of a
\* successful output are empty.
C21_ReadOnlyPreview ==
    /\ [](/\ Range(engine_log) \subseteq PreviewCalls
          /\ \A call \in PreviewCalls : Occurrences(engine_log, call) <= 1
          /\ db = EmptyDatabase
          /\ (is_some(output) /\ output[1].tag = "Ok") =>
                /\ output[1].value.errors = <<>>
                /\ output[1].value.warnings = <<>>
                /\ output[1].value.general_errors = <<>>)
    /\ [][persisted' = persisted /\ db' = db]_vars

\* the command has returned steps after reading, parsing, inferring twice
\* and rendering
C21_Witness ==
    /\ cmd_pc = "done"
    /\ Len(engine_log) = 5
    /\ is_some(output) /\ output[1].tag = "Ok"
    /\ output[1].value.datamodel_steps # <<>>
    /\ output[1].value.database_steps # <<>>

====
